---- MODULE Spec2Model ----
(***************************************************************************)
(* Model of the two Streamlit applications of the repository:              *)
(*   - final_app.py: the sales dashboard (load, sidebar filter, summary    *)
(*     metrics, two grouped charts), rerun on every widget interaction;    *)
(*   - streamlit_predict_v2.py: the insurance-cost form, which one-hot     *)
(*     encodes the form and calls the model pickled by save_model.py.      *)
(*                                                                         *)
(* Encoding of values:                                                     *)
(*   - a data frame is a sequence of rows; a row carries its index label   *)
(*     (the order id) in field "id";                                       *)
(*   - money is counted in cents and a rating in tenths, so that the       *)
(*     floats of the program are exact integers here; a mean is rounded    *)
(*     half-to-even, as round() of a numpy float64 does;                   *)
(*   - NaN (a missing rating, the mean of nothing) is the value NaN;       *)
(*   - a string that is sorted by the program is the sequence of its       *)
(*     code points.                                                        *)
(***************************************************************************)
EXTENDS Integers, Sequences, FiniteSets, TLC

VARIABLES
    excel,                          \* rows of the sheet read by get_dataframe_from_excel
    sale_df,                        \* run_app: sale_df
    city_w, customer_type_w, gender_w,   \* values held by the three st.multiselect widgets
    df_selection,                   \* run_app: df_selection
    total_sales, average_rating, star_rating, average_sale_per_transaction,
    warning,                        \* st.warning shown by main_page_demo
    hour_fig, product_fig,          \* the two figures (data: the series plotted), None when not built
    rfr_model,                      \* the object unpickled from rfr_model.pkl
    nav,                            \* st.sidebar.radio of streamlit_predict_v2.py
    submitted,                      \* st.form_submit_button
    form,                           \* values of the widgets of st.form('user_inputs')
    format_data,                    \* predict_page: format_data
    shown                           \* what predict_page wrote below the form

vars == <<excel, sale_df, city_w, customer_type_w, gender_w, df_selection,
          total_sales, average_rating, star_rating, average_sale_per_transaction,
          warning, hour_fig, product_fig,
          rfr_model, nav, submitted, form, format_data, shown>>

salesVars == <<excel, sale_df, city_w, customer_type_w, gender_w, df_selection,
               total_sales, average_rating, star_rating, average_sale_per_transaction,
               warning, hour_fig, product_fig>>

predictVars == <<rfr_model, nav, submitted, form, format_data, shown>>

\* Largest number of rows of a sheet, and of a sheet made for the charts.
MaxRecords == 2
MaxAggRecords == 3

NaN == 0 - 1
None == [none |-> TRUE]
Nothing == [kind |-> "nothing", input |-> <<>>]

----------------------------------------------------------------------------
(* Generic helpers of the data-frame library, as the program uses them.    *)

\* Series.notna()
notna(x) == x # NaN

\* lexicographic order of two strings given as code-point sequences
RECURSIVE StrLess(_, _)
StrLess(a, b) ==
    IF b = <<>> THEN FALSE
    ELSE IF a = <<>> THEN TRUE
    ELSE IF a[1] # b[1] THEN a[1] < b[1]
    ELSE StrLess(Tail(a), Tail(b))

\* the order of two values of column col: the hours are numbers, the values
\* of the other sorted columns are strings
KeyLess(col, a, b) == IF col = "hour" THEN a < b ELSE StrLess(a, b)

\* Series.sum(): NaN entries are skipped, the sum of nothing is 0
RECURSIVE sum(_)
sum(s) ==
    IF s = <<>> THEN 0
    ELSE (IF notna(Head(s)) THEN Head(s) ELSE 0) + sum(Tail(s))

\* Series.count(): the number of entries that are not NaN
RECURSIVE count(_)
count(s) ==
    IF s = <<>> THEN 0
    ELSE (IF notna(Head(s)) THEN 1 ELSE 0) + count(Tail(s))

\* round(num/den) to an integer, ties to the even neighbour (num >= 0, den > 0)
RoundHalfEven(num, den) ==
    LET q == num \div den
        r == num % den
    IN  IF 2 * r < den THEN q
        ELSE IF 2 * r > den THEN q + 1
        ELSE IF q % 2 = 0 THEN q ELSE q + 1

\* round(Series.mean(), k): the mean of the entries that are not NaN, in the
\* unit of the entries; NaN when there is none (round(nan) is nan)
mean(s) == IF count(s) = 0 THEN NaN ELSE RoundHalfEven(sum(s), count(s))

\* df[col] as a sequence
Column(df, col) == [i \in DOMAIN df |-> df[i][col]]

\* df[col].unique(), as the set the selection is tested against
unique(df, col) == {df[i][col] : i \in DOMAIN df}

----------------------------------------------------------------------------
(* final_app.py                                                            *)

\* pd.to_datetime(t, format="%H:%M:%S").dt.hour of a time <<H,H,M,M,S,S>>
HourOf(t) == 10 * t[1] + t[2]

get_dataframe_from_excel(sheet) ==
    [i \in DOMAIN sheet |->
        [id |-> i,
         city |-> sheet[i].city,
         customer_type |-> sheet[i].customer_type,
         gender |-> sheet[i].gender,
         product_line |-> sheet[i].product_line,
         total |-> sheet[i].total,
         rating |-> sheet[i].rating,
         time |-> sheet[i].time,
         hour |-> HourOf(sheet[i].time)]]

\* df.query("city in @city & customer_type in @customer_type & gender in @gender"):
\* a new frame; src is the frame the query was made on, as the call leaves it
QueryRow(r, city, customer_type, gender) ==
    r.city \in city /\ r.customer_type \in customer_type /\ r.gender \in gender

\* the query made with inplace=True: the frame itself is cut
query_inplace(df, city, customer_type, gender) ==
    LET kept == SelectSeq(df, LAMBDA r : QueryRow(r, city, customer_type, gender))
    IN  [src |-> kept, result |-> kept]

query(df, city, customer_type, gender) ==
    [src |-> df,
     result |-> SelectSeq(df, LAMBDA r : QueryRow(r, city, customer_type, gender))]

\* the selection used as it is, an empty one too
OrAll_as_selected(selected, all) == selected

\* "if not city: city = city_unique"
OrAll(selected, all) == IF selected = {} THEN all ELSE selected

add_sidebar_func(df, city_sel, customer_type_sel, gender_sel) ==
    query(df,
          OrAll(city_sel, unique(df, "city")),
          OrAll(customer_type_sel, unique(df, "customer_type")),
          OrAll(gender_sel, unique(df, "gender")))

\* The index of a grouped series: the distinct keys in ascending order
\* (groupby sorts its keys: sort=True is the default).
SortedKeys(keys, col) ==
    [i \in 1..Cardinality(keys) |->
        CHOOSE k \in keys : Cardinality({y \in keys : KeyLess(col, y, k)}) = i - 1]

\* the rows of df whose column col holds k
RowsOf(df, col, k) == SelectSeq(df, LAMBDA r : r[col] = k)

\* the grouped series reduced by first() where the program reduces by sum()
groupby_first(df, col) ==
    LET idx == SortedKeys(unique(df, col), col)
    IN  [i \in DOMAIN idx |->
            [key |-> idx[i], value |-> RowsOf(df, col, idx[i])[1].total]]

\* df.groupby(by=[col])["total"].sum(): one entry per key present in df
groupby_sum(df, col) ==
    LET idx == SortedKeys(unique(df, col), col)
    IN  [i \in DOMAIN idx |->
            [key |-> idx[i], value |-> sum(Column(RowsOf(df, col, idx[i]), "total"))]]

\* Series.sort_values(): ascending by value. numpy sorts a short array by
\* insertion, which keeps equal values in their index order.
RECURSIVE Insert(_, _)
Insert(sorted, e) ==
    IF sorted = <<>> THEN <<e>>
    ELSE IF sorted[Len(sorted)].value <= e.value THEN Append(sorted, e)
    ELSE Append(Insert(SubSeq(sorted, 1, Len(sorted) - 1), e), sorted[Len(sorted)])

RECURSIVE sort_values(_)
sort_values(series) ==
    IF series = <<>> THEN <<>>
    ELSE Insert(sort_values(SubSeq(series, 1, Len(series) - 1)), series[Len(series)])

\* the chart built without the call of sort_values()
product_line_chart_unsorted(df) ==
    [orientation |-> "h", data |-> groupby_sum(df, "product_line")]

\* the figure of product_line_chart; data is the series it plots
product_line_chart(df) ==
    [orientation |-> "h", data |-> sort_values(groupby_sum(df, "product_line"))]

\* the figure of hour_chart; data is the series it plots
hour_chart(df) == [orientation |-> "v", data |-> groupby_sum(df, "hour")]

\* int(df["total"].sum()) if not df.empty else 0, in whole currency units
TotalSales(df) == IF df # <<>> THEN sum(Column(df, "total")) \div 100 ELSE 0

\* the rating without the test of notna().any()
AverageRating_unguarded(df) == IF df # <<>> THEN mean(Column(df, "rating")) ELSE 0

\* round(df["rating"].mean(), 1) if not df.empty and df["rating"].notna().any() else 0.0
AverageRating(df) ==
    IF df # <<>> /\ \E i \in DOMAIN df : notna(df[i].rating)
    THEN mean(Column(df, "rating"))
    ELSE 0

\* the number of stars: int(round(average_rating, 0)) when the rating is a
\* number above 0, else 0
StarRating(rating) ==
    IF notna(rating) /\ rating > 0 THEN RoundHalfEven(rating, 10) ELSE 0

\* the mean taken of an empty frame too
AverageSale_unguarded(df) == mean(Column(df, "total"))

\* round(df["total"].mean(), 2) if not df.empty else 0.0
AverageSale(df) == IF df # <<>> THEN mean(Column(df, "total")) ELSE 0

\* the charts built whatever the frame holds
Charts_always(df) ==
    [warning |-> FALSE, hour_fig |-> hour_chart(df), product_fig |-> product_line_chart(df)]

\* the chart area: the warning on an empty frame, else the two charts
Charts(df) ==
    IF df = <<>>
    THEN [warning |-> TRUE, hour_fig |-> None, product_fig |-> None]
    ELSE [warning |-> FALSE, hour_fig |-> hour_chart(df),
          product_fig |-> product_line_chart(df)]

main_page_demo(df) ==
    [total_sales |-> TotalSales(df),
     average_rating |-> AverageRating(df),
     star_rating |-> StarRating(AverageRating(df)),
     average_sale_per_transaction |-> AverageSale(df),
     charts |-> Charts(df)]

\* One run of the script with the widgets holding the given selections.
run_app(sheet, city_sel, customer_type_sel, gender_sel) ==
    LET loaded == get_dataframe_from_excel(sheet)
        side == add_sidebar_func(loaded, city_sel, customer_type_sel, gender_sel)
    IN  [sale_df |-> side.src, df_selection |-> side.result,
         page |-> main_page_demo(side.result)]

\* A rerun that keeps the hour chart of the page when there is one to keep.
Rerun_cached(city_sel, customer_type_sel, gender_sel) ==
    LET out == run_app(excel, city_sel, customer_type_sel, gender_sel)
    IN  /\ city_w' = city_sel
        /\ customer_type_w' = customer_type_sel
        /\ gender_w' = gender_sel
        /\ sale_df' = out.sale_df
        /\ df_selection' = out.df_selection
        /\ total_sales' = out.page.total_sales
        /\ average_rating' = out.page.average_rating
        /\ star_rating' = out.page.star_rating
        /\ average_sale_per_transaction' = out.page.average_sale_per_transaction
        /\ warning' = out.page.charts.warning
        /\ hour_fig' = IF hour_fig # None /\ ~out.page.charts.warning
                       THEN hour_fig ELSE out.page.charts.hour_fig
        /\ product_fig' = out.page.charts.product_fig
        /\ UNCHANGED <<excel, predictVars>>

\* The script runs top to bottom with the widgets holding the given
\* selections and leaves what it computed on the page.
Rerun(city_sel, customer_type_sel, gender_sel) ==
    LET out == run_app(excel, city_sel, customer_type_sel, gender_sel)
    IN  /\ city_w' = city_sel
        /\ customer_type_w' = customer_type_sel
        /\ gender_w' = gender_sel
        /\ sale_df' = out.sale_df
        /\ df_selection' = out.df_selection
        /\ total_sales' = out.page.total_sales
        /\ average_rating' = out.page.average_rating
        /\ star_rating' = out.page.star_rating
        /\ average_sale_per_transaction' = out.page.average_sale_per_transaction
        /\ warning' = out.page.charts.warning
        /\ hour_fig' = out.page.charts.hour_fig
        /\ product_fig' = out.page.charts.product_fig
        /\ UNCHANGED <<excel, predictVars>>

\* The user changes the city multiselect (options: the cities of the frame).
SelectCity(S) ==
    /\ S \in SUBSET unique(sale_df, "city")
    /\ S # city_w
    /\ Rerun(S, customer_type_w, gender_w)

\* The user changes the customer-type multiselect.
SelectCustomerType(S) ==
    /\ S \in SUBSET unique(sale_df, "customer_type")
    /\ S # customer_type_w
    /\ Rerun(city_w, S, gender_w)

\* The user changes the gender multiselect.
SelectGender(S) ==
    /\ S \in SUBSET unique(sale_df, "gender")
    /\ S # gender_w
    /\ Rerun(city_w, customer_type_w, S)

NextSales ==
    \/ \E S \in SUBSET unique(sale_df, "city") : SelectCity(S)
    \/ \E S \in SUBSET unique(sale_df, "customer_type") : SelectCustomerType(S)
    \/ \E S \in SUBSET unique(sale_df, "gender") : SelectGender(S)

----------------------------------------------------------------------------
(* The sheets the dashboard is run on.                                     *)

ProductA == <<65>>
ProductB == <<66>>
T1029 == <<1, 0, 2, 9, 0, 0>>
T1308 == <<1, 3, 0, 8, 0, 0>>
T1323 == <<1, 3, 2, 3, 0, 0>>

Row(c, t, g, p, price, rate, at) ==
    [city |-> c, customer_type |-> t, gender |-> g, product_line |-> p,
     total |-> price, rating |-> rate, time |-> at]

\* every combination of the three filtered columns
FilterRows ==
    {Row(c, t, g,
         IF g = "Female" THEN ProductA ELSE ProductB,
         IF t = "Member" THEN 1000 ELSE 2050,
         IF c = "A" THEN 45 ELSE NaN,
         IF g = "Female" THEN T1029 ELSE T1308) :
        c \in {"A", "B"}, t \in {"Member", "Normal"}, g \in {"Female", "Male"}}

\* rows that differ in what the charts group and add: every product line
\* with every price, at three times of which two share their hour; the city
\* follows the price so that the filter can still cut the sheet
AggRows ==
    {Row("B", "Member", "Female", ProductA, 500, 40, T1323),
     Row("A", "Member", "Female", ProductA, 1000, 40, T1308),
     Row("A", "Member", "Female", ProductA, 2000, 40, T1029),
     Row("B", "Member", "Female", ProductB, 500, 40, T1323),
     Row("A", "Member", "Female", ProductB, 1000, 40, T1029),
     Row("A", "Member", "Female", ProductB, 2000, 40, T1308)}

\* rows that differ in their rating, present or missing
RatingRows ==
    {Row(c, t, "Female", ProductA, 1000, rate, T1029) :
        c \in {"A", "B"}, t \in {"Member", "Normal"}, rate \in {NaN, 40, 45}}

Sheets(rows, most) == UNION {[1..n -> rows] : n \in 0..most}

\* The page after the first run: every multiselect starts with all of its
\* options selected (default=city_unique, ...).
InitSales(rows, most) ==
    /\ excel \in Sheets(rows, most)
    /\ LET df == get_dataframe_from_excel(excel)
           out == run_app(excel, unique(df, "city"), unique(df, "customer_type"),
                          unique(df, "gender"))
       IN  /\ city_w = unique(df, "city")
           /\ customer_type_w = unique(df, "customer_type")
           /\ gender_w = unique(df, "gender")
           /\ sale_df = out.sale_df
           /\ df_selection = out.df_selection
           /\ total_sales = out.page.total_sales
           /\ average_rating = out.page.average_rating
           /\ star_rating = out.page.star_rating
           /\ average_sale_per_transaction = out.page.average_sale_per_transaction
           /\ warning = out.page.charts.warning
           /\ hour_fig = out.page.charts.hour_fig
           /\ product_fig = out.page.charts.product_fig
    /\ rfr_model = None
    /\ nav = "intro"
    /\ submitted = FALSE
    /\ form = None
    /\ format_data = <<>>
    /\ shown = Nothing

Init == InitSales(FilterRows, MaxRecords)
InitAgg == InitSales(AggRows, MaxAggRecords)
InitRating == InitSales(RatingRows, MaxRecords)

Spec == Init /\ [][NextSales]_vars
SpecAgg == InitAgg /\ [][NextSales]_vars
SpecRating == InitRating /\ [][NextSales]_vars

----------------------------------------------------------------------------
(* save_model.py                                                           *)

\* Category labels, as code points.
Female == <<22899, 24615>>
Male == <<30007, 24615>>
SmokeYes == <<26159>>
SmokeNo == <<21542>>
Northeast == <<19996, 21271, 37096>>
Southeast == <<19996, 21335, 37096>>
Northwest == <<35199, 21271, 37096>>
Southwest == <<35199, 21335, 37096>>

\* The feature columns of insurance_df in the order save_model.py lists them;
\* a column of the csv is the set of labels found in it, a numeric one has none.
FeatureColumns == <<"age", "sex", "bmi", "children", "smoke", "region">>
NumericColumns == {"age", "bmi", "children"}

\* the name of a numeric column, and of the indicator column of a label
Numeric(col) == [col |-> col, label |-> <<>>]
Indicator(col, label) == [col |-> col, label |-> label]

RECURSIVE Concat(_)
Concat(seqs) == IF seqs = <<>> THEN <<>> ELSE Head(seqs) \o Concat(Tail(seqs))

\* pd.get_dummies(features): the numeric columns in their order, then for each
\* other column, in the order of the columns, one indicator per label in the
\* sorted order of the labels
get_dummies(csv) ==
    LET kept == SelectSeq(FeatureColumns, LAMBDA c : c \in NumericColumns)
        coded == SelectSeq(FeatureColumns, LAMBDA c : c \notin NumericColumns)
        dummies(c) == LET labels == SortedKeys(csv[c], c)
                      IN  [i \in DOMAIN labels |-> Indicator(c, labels[i])]
    IN  [i \in DOMAIN kept |-> Numeric(kept[i])]
        \o Concat([i \in DOMAIN coded |-> dummies(coded[i])])

\* rfr.fit(x_train, y_train), pickled: the forest remembers the columns it was
\* fitted on; its trees are not modelled
fit(csv) == [feature_names_in_ |-> get_dummies(csv)]

\* The csv files the forest is fitted on: the labels the form offers; the same
\* with no row of one region; other labels for the regions (NE, NW, SE, SW).
CsvLabels == [sex |-> {Female, Male}, smoke |-> {SmokeYes, SmokeNo},
              region |-> {Northeast, Southeast, Northwest, Southwest}]
CsvFiles ==
    {CsvLabels,
     [CsvLabels EXCEPT !.region = {Northeast, Southeast, Southwest}],
     [CsvLabels EXCEPT !.region = {<<78, 69>>, <<78, 87>>, <<83, 69>>, <<83, 87>>}]}

----------------------------------------------------------------------------
(* streamlit_predict_v2.py                                                 *)

\* Largest number entered in a number_input.
MaxNumber == 1

\* the widgets of the form before the user touches them
FormDefaults ==
    [age |-> 0, sex |-> Male, bmi |-> 0, children |-> 0, smoke |-> SmokeYes,
     region |-> Southeast]

Forms ==
    [age : 0..MaxNumber, sex : {Male, Female}, bmi : 0..MaxNumber,
     children : 0..MaxNumber, smoke : {SmokeYes, SmokeNo},
     region : {Southeast, Southwest, Northeast, Northwest}]

\* 1 when the branch of an if/elif chain is taken, else the 0 the variable
\* was initialised with
Flag(taken) == IF taken THEN 1 ELSE 0

\* the encoding with the two smoker entries in the order they are declared
Encode_smoke_swapped(f) ==
    <<f.age, f.bmi, f.children,
      Flag(f.sex = Female), Flag(f.sex # Female /\ f.sex = Male),
      Flag(f.smoke = SmokeYes), Flag(f.smoke # SmokeYes /\ f.smoke = SmokeNo),
      Flag(f.region = Northeast),
      Flag(f.region # Northeast /\ f.region = Southeast),
      Flag(f.region \notin {Northeast, Southeast} /\ f.region = Northwest),
      Flag(f.region \notin {Northeast, Southeast, Northwest} /\ f.region = Southwest)>>

\* format_data = [age, bmi, children, sex_female, sex_male, smoke_no, smoke_yes,
\*                region_northeast, region_southeast, region_northwest, region_southwest]
Encode(f) ==
    <<f.age, f.bmi, f.children,
      Flag(f.sex = Female), Flag(f.sex # Female /\ f.sex = Male),
      Flag(f.smoke # SmokeYes /\ f.smoke = SmokeNo), Flag(f.smoke = SmokeYes),
      Flag(f.region = Northeast),
      Flag(f.region # Northeast /\ f.region = Southeast),
      Flag(f.region \notin {Northeast, Southeast} /\ f.region = Northwest),
      Flag(f.region \notin {Northeast, Southeast, Northwest} /\ f.region = Southwest)>>

\* pd.DataFrame(data=[row], columns=columns): a ValueError when the row has
\* not as many entries as there are columns
DataFrame(row, columns) ==
    IF Len(row) # Len(columns)
    THEN [error |-> "ValueError", columns |-> <<>>, row |-> <<>>]
    ELSE [error |-> "", columns |-> columns, row |-> row]

\* rfr_model.predict(X)[0]: a ValueError when the columns of X are not the
\* columns the forest was fitted on; else the forest's value for the row,
\* which it reads by position
predict(model, X) ==
    IF X.columns # model.feature_names_in_
    THEN [kind |-> "error", input |-> <<>>]
    ELSE [kind |-> "prediction", input |-> X.row]

\* What predict_page leaves below the form: nothing before a submission; an
\* exception raised on the way, which Streamlit prints; else the prediction.
predict_page(model, f, pressed) ==
    IF ~pressed THEN [format_data |-> <<>>, shown |-> Nothing]
    ELSE LET data == Encode(f)
             input_data_df == DataFrame(data, model.feature_names_in_)
         IN  [format_data |-> data,
              shown |-> IF input_data_df.error # ""
                        THEN [kind |-> "error", input |-> <<>>]
                        ELSE predict(model, input_data_df)]

\* The user picks a page in the sidebar: the script reruns without a
\* submission; the widgets of a form that is not drawn lose their values.
Navigate(page) ==
    /\ page # nav
    /\ nav' = page
    /\ submitted' = FALSE
    /\ form' = IF page = "intro" THEN FormDefaults ELSE form
    /\ format_data' = <<>>
    /\ shown' = Nothing
    /\ UNCHANGED <<rfr_model, salesVars>>

\* The user fills the form and presses the submit button: the script reruns
\* with the values entered.
Submit(f) ==
    /\ nav = "predict"
    /\ LET out == predict_page(rfr_model, f, TRUE)
       IN  /\ form' = f
           /\ submitted' = TRUE
           /\ format_data' = out.format_data
           /\ shown' = out.shown
    /\ UNCHANGED <<nav, rfr_model, salesVars>>

NextPredict ==
    \/ \E page \in {"intro", "predict"} : Navigate(page)
    \/ \E f \in Forms : Submit(f)

InitPredict ==
    /\ rfr_model \in {fit(csv) : csv \in CsvFiles}
    /\ nav = "intro"
    /\ submitted = FALSE
    /\ form = FormDefaults
    /\ format_data = <<>>
    /\ shown = Nothing
    /\ excel = <<>>
    /\ sale_df = <<>>
    /\ city_w = {}
    /\ customer_type_w = {}
    /\ gender_w = {}
    /\ df_selection = <<>>
    /\ total_sales = 0
    /\ average_rating = 0
    /\ star_rating = 0
    /\ average_sale_per_transaction = 0
    /\ warning = FALSE
    /\ hour_fig = None
    /\ product_fig = None

SpecPredict == InitPredict /\ [][NextPredict]_vars

----------------------------------------------------------------------------
(* Properties of the dashboard.                                            *)

\* the row passes the Filter Selection: in each column its value is selected
\* or the column's selection is empty
Passes(r) ==
    /\ (city_w = {} \/ r.city \in city_w)
    /\ (customer_type_w = {} \/ r.customer_type \in customer_type_w)
    /\ (gender_w = {} \/ r.gender \in gender_w)

Range(seq) == {seq[i] : i \in DOMAIN seq}

\* the positions of frame df holding key k in column col
Positions(df, col, k) == {i \in DOMAIN df : df[i][col] = k}

\* the total price added over a set of positions of df
RECURSIVE TotalOver(_, _)
TotalOver(df, at) ==
    IF at = {} THEN 0
    ELSE LET i == CHOOSE j \in at : TRUE
         IN  df[i].total + TotalOver(df, at \ {i})

\* series is a mapping from exactly the values of column col in df_selection,
\* each to the sum of the total price of its rows
IsGroupedSum(series, col) ==
    /\ {series[i].key : i \in DOMAIN series} = {r[col] : r \in Range(df_selection)}
    /\ \A i, j \in DOMAIN series : series[i].key = series[j].key => i = j
    /\ \A i \in DOMAIN series :
          series[i].value = TotalOver(df_selection, Positions(df_selection, col, series[i].key))

\* C1: the filtered frame holds exactly the rows, in their order, that pass
\* every column's test (value selected, or selection empty); with every
\* selection empty it is the whole frame.
C1_FilterContract ==
    /\ df_selection = SelectSeq(sale_df, Passes)
    /\ (city_w = {} /\ customer_type_w = {} /\ gender_w = {} => df_selection = sale_df)

C1_Witness ==
    /\ city_w = {}
    /\ customer_type_w # {}
    /\ gender_w # {}
    /\ df_selection # <<>>
    /\ Len(df_selection) < Len(sale_df)

\* C2: filtering leaves the loaded frame as it was loaded, and the filtered
\* frame holds rows of it only, so no more rows than it.
C2_SourceUnchanged ==
    /\ sale_df = get_dataframe_from_excel(excel)
    /\ Range(df_selection) \subseteq Range(sale_df)
    /\ Len(df_selection) <= Len(sale_df)

C2_Witness ==
    /\ Len(df_selection) < Len(sale_df)
    /\ sale_df = get_dataframe_from_excel(excel)

\* C3: on a non-empty filtered frame each chart's series has exactly the
\* values of its grouping column as keys, once each, and the sum of the
\* total price of a key's rows as the key's value.
C3_GroupedSums ==
    df_selection # <<>> =>
        /\ IsGroupedSum(product_fig.data, "product_line")
        /\ IsGroupedSum(hour_fig.data, "hour")

C3_Witness ==
    /\ Len(df_selection) = 3
    /\ Len(product_fig.data) = 2
    /\ Len(hour_fig.data) = 2
    /\ \E i \in DOMAIN df_selection : df_selection[i].time = T1308
    /\ \E i \in DOMAIN df_selection : df_selection[i].time = T1323

\* the filtered frame is the scenario {A,10},{A,20},{B,5} (in cents)
IsScenario ==
    /\ Len(df_selection) = 3
    /\ [i \in 1..3 |-> <<df_selection[i].product_line, df_selection[i].total>>]
         = <<(<<ProductA, 1000>>), (<<ProductA, 2000>>), (<<ProductB, 500>>)>>

\* C4: the product-line series is in ascending order of its sums and the
\* hour series in ascending order of its hours; the scenario gives B:5, A:30.
C4_Ordered ==
    df_selection # <<>> =>
        /\ \A i, j \in DOMAIN product_fig.data :
              i < j => product_fig.data[i].value <= product_fig.data[j].value
        /\ \A i, j \in DOMAIN hour_fig.data : i < j => hour_fig.data[i].key < hour_fig.data[j].key
        /\ (IsScenario =>
              product_fig.data = <<[key |-> ProductB, value |-> 500],
                                   [key |-> ProductA, value |-> 3000]>>)

C4_Witness ==
    /\ IsScenario
    /\ Len(hour_fig.data) = 2
    /\ hour_fig.data[1].value > hour_fig.data[2].value

\* C5: on an empty filtered frame the three metrics are 0, none is NaN.
C5_EmptyMetrics ==
    df_selection = <<>> =>
        /\ total_sales = 0
        /\ average_sale_per_transaction = 0
        /\ average_rating = 0
        /\ star_rating = 0
        /\ notna(total_sales) /\ notna(average_sale_per_transaction) /\ notna(average_rating)

C5_Witness ==
    /\ df_selection = <<>>
    /\ sale_df # <<>>
    /\ \E i \in DOMAIN sale_df : notna(sale_df[i].rating)

\* the ratings of the filtered frame that are present
Present == {i \in DOMAIN df_selection : notna(df_selection[i].rating)}

RECURSIVE RatingOver(_)
RatingOver(at) ==
    IF at = {} THEN 0
    ELSE LET i == CHOOSE j \in at : TRUE
         IN  df_selection[i].rating + RatingOver(at \ {i})

Abs(x) == IF x < 0 THEN 0 - x ELSE x

\* m is the mean of the present ratings to one decimal (ratings in tenths)
IsMeanToOneDecimal(m) ==
    /\ notna(m)
    /\ 2 * Abs(m * Cardinality(Present) - RatingOver(Present)) <= Cardinality(Present)

\* C6 as claimed: on a non-empty filtered frame the rating metric is the mean
\* of the ratings that are present, and it is null, not zero, when none is.
C6_AsClaimed ==
    df_selection # <<>> =>
        IF Present = {} THEN average_rating = NaN ELSE IsMeanToOneDecimal(average_rating)

\* C6 as amended: on a non-empty filtered frame the rating metric is the mean
\* of the ratings that are present, rounded to one decimal (a tie to the even
\* digit), and it is 0.0 with no star when none is present.
C6_MeanOrZero ==
    df_selection # <<>> =>
        IF Present = {}
        THEN average_rating = 0 /\ star_rating = 0
        ELSE /\ IsMeanToOneDecimal(average_rating)
             /\ (2 * Abs(average_rating * Cardinality(Present) - RatingOver(Present))
                    = Cardinality(Present) => average_rating % 2 = 0)

C6_Witness ==
    /\ df_selection # <<>>
    /\ Present = {}
    /\ \E i \in DOMAIN sale_df : notna(sale_df[i].rating)

\* C7: the warning is shown exactly when the filtered frame is empty; then no
\* chart is built and the metrics show 0; otherwise both charts are built.
C7_EmptyIsNotAnError ==
    /\ warning = (df_selection = <<>>)
    /\ (df_selection = <<>> =>
          /\ hour_fig = None /\ product_fig = None
          /\ total_sales = 0 /\ average_rating = 0 /\ average_sale_per_transaction = 0)
    /\ (df_selection # <<>> => hour_fig # None /\ product_fig # None)

C7_Witness ==
    /\ warning
    /\ sale_df # <<>>
    /\ hour_fig = None

\* C10: what the page shows is what one run of the script computes from the
\* sheet and the selections the widgets hold now, whatever was shown before.
C10_FunctionOfSelection ==
    LET out == run_app(excel, city_w, customer_type_w, gender_w)
    IN  /\ df_selection = out.df_selection
        /\ total_sales = out.page.total_sales
        /\ average_rating = out.page.average_rating
        /\ star_rating = out.page.star_rating
        /\ average_sale_per_transaction = out.page.average_sale_per_transaction
        /\ warning = out.page.charts.warning
        /\ hour_fig = out.page.charts.hour_fig
        /\ product_fig = out.page.charts.product_fig

C10_Witness ==
    /\ city_w # {}
    /\ customer_type_w = {}
    /\ hour_fig # None
    /\ hour_fig # hour_chart(sale_df)
    /\ product_fig # product_line_chart(sale_df)

----------------------------------------------------------------------------
(* Properties of the prediction form.                                      *)

\* the columns the entries of format_data stand for, in their order
FormatNames ==
    <<Numeric("age"), Numeric("bmi"), Numeric("children"),
      Indicator("sex", Female), Indicator("sex", Male),
      Indicator("smoke", SmokeNo), Indicator("smoke", SmokeYes),
      Indicator("region", Northeast), Indicator("region", Southeast),
      Indicator("region", Northwest), Indicator("region", Southwest)>>

\* C8: a submission made while the columns of the loaded forest are not the
\* columns of format_data, by name and order, ends in an error on the page and
\* shows no prediction.
C8_MismatchIsSurfaced ==
    submitted /\ rfr_model.feature_names_in_ # FormatNames => shown.kind = "error"

\* the entry of format_data standing for column c
Entry(c) == format_data[CHOOSE i \in DOMAIN FormatNames : FormatNames[i] = c]

\* C9: after a submission format_data has the 11 entries of FormatNames in that
\* order: the three numbers entered, then the indicators of sex, smoker and
\* region, the one of the chosen option 1 and every other 0; the order is the
\* one save_model.py fits on; a prediction is on the page only after a
\* submission.
C9_OneHotEncoding ==
    /\ (submitted =>
          /\ Len(format_data) = 11
          /\ Entry(Numeric("age")) = form.age
          /\ Entry(Numeric("bmi")) = form.bmi
          /\ Entry(Numeric("children")) = form.children
          /\ \A c \in {"sex", "smoke", "region"} : \A l \in CsvLabels[c] :
                Entry(Indicator(c, l)) = IF form[c] = l THEN 1 ELSE 0)
    /\ get_dummies(CsvLabels) = FormatNames
    /\ (shown.kind = "prediction" => submitted)

C9_Witness ==
    /\ submitted
    /\ shown.kind = "prediction"
    /\ form.sex = Female /\ form.smoke = SmokeNo /\ form.region = Northwest
    /\ form.age = 1

====
